---------------------------- MODULE Spec2Model ----------------------------
(***************************************************************************)
(* Interactive graph contraction (grafo.py and its older variant           *)
(* grafo1.py): a weighted undirected graph whose nodes the user merges by  *)
(* dragging one node onto another or by the greedy "merge the anchor with  *)
(* its heaviest neighbour" key.                                            *)
(*                                                                         *)
(* Representation.                                                         *)
(*  - A Python string is the sequence of its characters (one-character     *)
(*    TLA+ strings), so "0,2" is <<"0", ",", "2">>; split(",") and int()   *)
(*    are computed on the characters.                                      *)
(*  - A float weight is an integer number of half-tolerances: the          *)
(*    tolerance 0.000001 of find_max_edge_node is EPS = 2 units.           *)
(*  - A networkx Graph is its two insertion-ordered dicts: node, the list  *)
(*    of node keys, and adj, per node the list of (neighbour, weight).     *)
(*  - A coordinate is an integer number of node radii.                     *)
(***************************************************************************)
EXTENDS Integers, Sequences, FiniteSets, TLC

VARIABLES
    script,             \* which file runs: "grafo" (grafo.py) or "grafo1" (grafo1.py)
    G,                  \* self.G
    pos,                \* self.pos, an ordered dict: list of [node, xy]
    selected_node,      \* self.selected_node (None or a node key)
    original_G,         \* self.original_G
    original_pos,       \* self.original_pos
    merged_node,        \* self.merged_node, the anchor of the greedy step
    last_merged_nodes,  \* self.last_merged_nodes
    merged_nodes,       \* self.merged_nodes, two entries per merge_nodes call
    shrinked_nodes,     \* self.shrinked_nodes, the shrink checkpoints
    initial_nodes,      \* self.initial_nodes
    pc,                 \* "idle", or "collapse" inside the backspace loop
    raised,             \* the exception the last handler ended with, or "none"
    used                \* pointer events consumed so far: [drag, move]

vars == <<script, G, pos, selected_node, original_G, original_pos, merged_node,
          last_merged_nodes, merged_nodes, shrinked_nodes, initial_nodes,
          pc, raised, used>>

(***************************************************************************)
(* Bounds of the model.                                                    *)
(***************************************************************************)
\* releases that call merge_nodes, over a whole run
MaxDrags == 1
\* motion events that move a node, over a whole run
MaxMoves == 1

(***************************************************************************)
(* Program constants.                                                      *)
(***************************************************************************)
\* 0.000001 in find_max_edge_node, in weight units
EPS == 2
\* node_radius = 0.05, in coordinate units
node_radius == 1
\* the start value of find_smallest_number (9999999999999 in the source,
\* here the largest integer TLC represents)
small_init == 2147483647

None == "None"

(***************************************************************************)
(* Strings.                                                                *)
(***************************************************************************)
Digits == <<"0", "1", "2", "3", "4", "5", "6", "7", "8", "9">>

RECURSIVE Str(_)
\* str(i) / f"{i}" of a non-negative integer
Str(i) == IF i < 10 THEN <<Digits[i + 1]>>
          ELSE Str(i \div 10) \o <<Digits[(i % 10) + 1]>>

\* f"{a},{b}"
Join(a, b) == a \o <<",">> \o b

RECURSIVE SplitFrom(_, _, _)
SplitFrom(s, i, cur) ==
    IF i > Len(s) THEN <<cur>>
    ELSE IF s[i] = "," THEN <<cur>> \o SplitFrom(s, i + 1, <<>>)
    ELSE SplitFrom(s, i + 1, Append(cur, s[i]))

\* s.split(",")
Split(s) == SplitFrom(s, 1, <<>>)

DigitValue(c) == CHOOSE d \in 0..9 : Digits[d + 1] = c

RECURSIVE IntOf(_)
\* int(t) of a numeral
IntOf(t) == IF Len(t) = 1 THEN DigitValue(t[1])
            ELSE 10 * IntOf(SubSeq(t, 1, Len(t) - 1)) + DigitValue(t[Len(t)])

(***************************************************************************)
(* Lists and ordered dicts.                                                *)
(***************************************************************************)
Range(s) == {s[k] : k \in 1..Len(s)}

InList(x, s) == \E k \in 1..Len(s) : s[k] = x

RECURSIVE Without(_, _)
\* the list without the entries in the set drop, order kept
Without(s, drop) ==
    IF s = <<>> THEN <<>>
    ELSE IF Head(s) \in drop THEN Without(Tail(s), drop)
    ELSE <<Head(s)>> \o Without(Tail(s), drop)

\* a list given by its entries, as a tuple
List(f) == <<>> \o f

\* a dict given by its entries, as an explicit function
Map(f) == f @@ <<>>

\* all orders in which the elements of a finite set can be listed
Orders(S) == {p \in [1..Cardinality(S) -> S] : \A x \in S : \E k \in DOMAIN p : p[k] = x}

(***************************************************************************)
(* networkx.Graph, as far as the scripts use it.                           *)
(***************************************************************************)
EmptyGraph == [node |-> <<>>, adj |-> <<>>]

\* n in G
HasNode(g, n) == InList(n, g.node)

\* list(G.neighbors(n)) for a node of G, in the order of G's adjacency dict
Neighbors(g, n) == List([k \in 1..Len(g.adj[n]) |-> g.adj[n][k].nbr])

HasEdge(g, u, v) == HasNode(g, u) /\ \E k \in 1..Len(g.adj[u]) : g.adj[u][k].nbr = v

\* G[u][v]["weight"] of an edge of G
Weight(g, u, v) == (CHOOSE e \in Range(g.adj[u]) : e.nbr = v).w

\* G.get_edge_data(u, v, {"weight": 0})["weight"]
GetEdgeWeight(g, u, v) == IF HasEdge(g, u, v) THEN Weight(g, u, v) ELSE 0

\* the distinct entries of a list, in the order of their first occurrence
FirstSeen(s) ==
    LET idx == {k \in 1..Len(s) : \A j \in 1..(k - 1) : s[j] # s[k]}
    IN  List([i \in 1..Cardinality(idx) |->
                 s[CHOOSE k \in idx : Cardinality({j \in idx : j < k}) = i - 1]])

\* G.add_nodes_from(ns): a new node goes to the end of the node dict
AddNodesFrom(g, ns) ==
    LET new == FirstSeen(SelectSeq(ns, LAMBDA n : ~HasNode(g, n)))
    IN  [node |-> g.node \o new,
         adj  |-> Map([n \in Range(g.node) \cup Range(new) |->
                          IF HasNode(g, n) THEN g.adj[n] ELSE <<>>])]

\* G.add_node(n)
AddNode(g, n) == AddNodesFrom(g, <<n>>)

\* G.add_edges_from(es), each edge <<u, v, w>>: adj[u][v] and adj[v][u] are
\* written edge by edge, in place when the key exists, else at the end
AddEdgesFrom(g, es) ==
    LET ends == List([k \in 1..(2 * Len(es)) |-> es[(k + 1) \div 2][IF k % 2 = 1 THEN 1 ELSE 2]])
        g2   == AddNodesFrom(g, ends)
        Touch(u) ==
            LET at == SelectSeq(es, LAMBDA e : e[1] = u \/ e[2] = u)
            IN  List([k \in 1..Len(at) |-> IF at[k][1] = u THEN at[k][2] ELSE at[k][1]])
        Last(u, v) ==
            LET ks == {k \in 1..Len(es) : {es[k][1], es[k][2]} = {u, v}}
            IN  es[CHOOSE k \in ks : \A j \in ks : j <= k][3]
        Adj(u) ==
            LET old == g2.adj[u]
                new == FirstSeen(SelectSeq(Touch(u), LAMBDA v : \A k \in 1..Len(old) : old[k].nbr # v))
            IN  List([k \in 1..Len(old) |->
                         IF InList(old[k].nbr, Touch(u))
                         THEN [nbr |-> old[k].nbr, w |-> Last(u, old[k].nbr)]
                         ELSE old[k]])
                \o List([k \in 1..Len(new) |-> [nbr |-> new[k], w |-> Last(u, new[k])]])
    IN  [node |-> g2.node, adj |-> Map([u \in Range(g2.node) |-> Adj(u)])]

\* G.add_edge(u, v, weight=w)
AddEdge(g, u, v, w) == AddEdgesFrom(g, <<<<u, v, w>>>>)

\* G.remove_nodes_from(ns): nodes not in G are skipped silently
RemoveNodesFrom(g, ns) ==
    LET gone == Range(ns) \cap Range(g.node)
        keep == Without(g.node, gone)
    IN  [node |-> keep,
         adj  |-> Map([x \in Range(keep) |-> SelectSeq(g.adj[x], LAMBDA e : e.nbr \notin gone)])]

RECURSIVE EdgesFrom(_, _)
\* G.edges(data=True), from the k-th node on: each edge once, at the
\* endpoint that comes first in the node order
EdgesFrom(g, k) ==
    IF k > Len(g.node) THEN <<>>
    ELSE LET n    == g.node[k]
             seen == {g.node[j] : j \in 1..(k - 1)}
             mine == SelectSeq(g.adj[n], LAMBDA e : e.nbr \notin seen)
         IN  List([j \in 1..Len(mine) |-> <<n, mine[j].nbr, mine[j].w>>]) \o EdgesFrom(g, k + 1)

Edges(g) == EdgesFrom(g, 1)

RECURSIVE AdjPairsFrom(_, _)
\* every (u, v, data) of the adjacency dicts, both directions
AdjPairsFrom(g, k) ==
    IF k > Len(g.node) THEN <<>>
    ELSE LET n == g.node[k]
         IN  List([j \in 1..Len(g.adj[n]) |-> <<n, g.adj[n][j].nbr, g.adj[n][j].w>>])
             \o AdjPairsFrom(g, k + 1)

\* G.copy()
CopyGraph(g) == AddEdgesFrom(AddNodesFrom(EmptyGraph, g.node), AdjPairsFrom(g, 1))

(***************************************************************************)
(* The position dict.                                                      *)
(***************************************************************************)
PosKeys(p) == {p[k].node : k \in 1..Len(p)}

\* pos[n] of a key of pos
PosGet(p, n) == (CHOOSE e \in Range(p) : e.node = n).xy

\* pos[n] = xy
PosSet(p, n, xy) ==
    IF n \in PosKeys(p)
    THEN List([k \in 1..Len(p) |-> IF p[k].node = n THEN [node |-> n, xy |-> xy] ELSE p[k]])
    ELSE Append(p, [node |-> n, xy |-> xy])

\* del pos[n]
PosDel(p, n) == SelectSeq(p, LAMBDA e : e.node # n)

\* ((x1 + x2) / 2, (y1 + y2) / 2)
Midpoint(a, b) == <<(a[1] + b[1]) \div 2, (a[2] + b[2]) \div 2>>

\* the hit test of on_press and on_release
Hit(xy, ev) ==
    (xy[1] - ev[1]) * (xy[1] - ev[1]) + (xy[2] - ev[2]) * (xy[2] - ev[2])
        < node_radius * node_radius

\* nx.draw(G, pos, ...) needs a position for every node of G
DrawGraphRaises(g, p) == \E k \in 1..Len(g.node) : g.node[k] \notin PosKeys(p)

(***************************************************************************)
(* The engine: the methods of DraggableGraph.  A method takes the object   *)
(* (a record s of its fields) and yields its outcomes, each the object     *)
(* afterwards and the exception it ended with ("none" when it returned).   *)
(* A method has several outcomes only where the source iterates a set of   *)
(* strings, whose order Python leaves to the hash seed of the process.     *)
(***************************************************************************)
Ok(s) == [self |-> s, exc |-> "none"]

Raise(s, e) == [self |-> s, exc |-> e]

\* find_subset(list1, list2)
find_subset(list1, list2) ==
    LET count == Cardinality({k \in 1..Len(list1) : InList(list1[k], list2)})
    IN  count = Len(list1)

\* a variant of find_nodes with the arguments of find_subset exchanged
find_nodes_exchanged(initial, node1, node2) ==
    SelectSeq(initial, LAMBDA n : \/ find_subset(Split(n), Split(node1))
                                  \/ find_subset(Split(n), Split(node2)))

\* find_nodes(node1, node2), given self.initial_nodes
find_nodes(initial, node1, node2) ==
    SelectSeq(initial, LAMBDA n : \/ find_subset(Split(node1), Split(n))
                                  \/ find_subset(Split(node2), Split(n)))

RECURSIVE SmallestFrom(_, _, _)
\* the loop of find_smallest_number over one split list
SmallestFrom(l, k, small) ==
    IF k > Len(l) THEN small
    ELSE SmallestFrom(l, k + 1, IF IntOf(l[k]) < small THEN IntOf(l[k]) ELSE small)

\* find_smallest_number(node1, node2)
find_smallest_number(node1, node2) ==
    <<SmallestFrom(Split(node1), 1, small_init), SmallestFrom(Split(node2), 1, small_init)>>

\* max_weight = float('-inf'); max_edge_node = None
ScanStart == [inf |-> TRUE, max_weight |-> 0, max_edge_node |-> None]

\* one pass of the loop body of grafo.py's find_max_edge_node
ScanStep(st, neighbor, weight) ==
    IF st.inf \/ weight > st.max_weight + EPS
    THEN [inf |-> FALSE, max_weight |-> weight, max_edge_node |-> neighbor]
    ELSE IF (IF weight >= st.max_weight THEN weight - st.max_weight
                                        ELSE st.max_weight - weight) < EPS
    THEN LET sm == find_smallest_number(neighbor, st.max_edge_node)
         IN  [inf |-> FALSE, max_weight |-> weight,
              max_edge_node |-> IF sm[1] < sm[2] THEN neighbor ELSE st.max_edge_node]
    ELSE st

\* one pass of the loop body of grafo1.py's find_max_edge_node
ScanStep1(st, neighbor, weight) ==
    IF st.inf \/ weight > st.max_weight
    THEN [inf |-> FALSE, max_weight |-> weight, max_edge_node |-> neighbor]
    ELSE st

RECURSIVE ScanOver(_, _, _, _, _)
\* the loop of find_max_edge_node over the neighbours listed in order, from the k-th
ScanOver(sc, g, target, order, k) ==
    LET st == IF k = 1 THEN ScanStart ELSE ScanOver(sc, g, target, order, k - 1)
    IN  IF k > Len(order) THEN st
        ELSE IF sc = "grafo" THEN ScanStep(st, order[k], Weight(g, target, order[k]))
        ELSE ScanStep1(st, order[k], Weight(g, target, order[k]))

\* a variant of FindMaxOver that returns the target when it has no neighbour
FindMaxOrTarget(sc, g, target, order) ==
    IF order = <<>> THEN target
    ELSE ScanOver(sc, g, target, order, Len(order)).max_edge_node

\* find_max_edge_node(target) when the neighbours are iterated in the given order
FindMaxOver(sc, g, target, order) ==
    IF order = <<>> THEN None
    ELSE ScanOver(sc, g, target, order, Len(order)).max_edge_node

\* find_max_edge_node(target), target a node of G
find_max_edge_node(sc, g, target) == FindMaxOver(sc, g, target, Neighbors(g, target))

\* a variant of MergedWeight that reads node1's edge only
MergedWeightOfNode1(g, node1, node2, neighbor) == GetEdgeWeight(g, node1, neighbor)

\* the weight merge_nodes gives the edge from the new node to neighbor
MergedWeight(g, node1, node2, neighbor) ==
    GetEdgeWeight(g, node1, neighbor) + GetEdgeWeight(g, node2, neighbor)

\* the dict edges of merge_nodes, in each order the set union can be iterated
MergeEdges(g, node1, node2) ==
    LET ext == (Range(Neighbors(g, node1)) \cup Range(Neighbors(g, node2))) \ {node1, node2}
    IN  {List([k \in 1..Len(p) |-> <<p[k], MergedWeight(g, node1, node2, p[k])>>]) : p \in Orders(ext)}

\* a variant of MergeGraph that leaves node2 in the graph
MergeGraphKeepingNode2(g, node1, node2, edges) ==
    LET new_node == Join(node1, node2)
    IN  AddEdgesFrom(AddNode(RemoveNodesFrom(g, <<node1>>), new_node),
                     List([k \in 1..Len(edges) |-> <<new_node, edges[k][1], edges[k][2]>>]))

\* a variant of MergeGraph that gives the new node the identifier of node1
MergeGraphNamedNode1(g, node1, node2, edges) ==
    AddEdgesFrom(AddNode(RemoveNodesFrom(g, <<node1, node2>>), node1),
                 List([k \in 1..Len(edges) |-> <<node1, edges[k][1], edges[k][2]>>]))

\* a variant of MergeGraph that drops the edges between the other nodes
MergeGraphDroppingEdges(g, node1, node2, edges) ==
    LET new_node == Join(node1, node2)
        others   == AddNodesFrom(EmptyGraph, RemoveNodesFrom(g, <<node1, node2>>).node)
    IN  AddEdgesFrom(AddNode(others, new_node),
                     List([k \in 1..Len(edges) |-> <<new_node, edges[k][1], edges[k][2]>>]))

\* remove_nodes_from, add_node and the add_edge loop of merge_nodes
MergeGraph(g, node1, node2, edges) ==
    LET new_node == Join(node1, node2)
    IN  AddEdgesFrom(AddNode(RemoveNodesFrom(g, <<node1, node2>>), new_node),
                     List([k \in 1..Len(edges) |-> <<new_node, edges[k][1], edges[k][2]>>]))

\* the position part of merge_nodes, and its draw_graph
MergePos(s, node1, node2) ==
    LET new_node == Join(node1, node2)
    IN  IF node1 \notin PosKeys(s.pos) \/ node2 \notin PosKeys(s.pos)
        THEN Raise(s, "KeyError")
        ELSE LET p1 == PosSet(s.pos, new_node,
                              Midpoint(PosGet(s.pos, node1), PosGet(s.pos, node2)))
                 p2 == PosDel(p1, node1)
             IN  IF node2 \notin PosKeys(p2)
                 THEN Raise([s EXCEPT !.pos = p2], "KeyError")
                 ELSE LET s3 == [s EXCEPT !.pos = PosDel(p2, node2)]
                      IN  IF DrawGraphRaises(s3.G, s3.pos)
                          THEN Raise(s3, "NetworkXError")
                          ELSE Ok(s3)

\* the history that merge_nodes of grafo.py keeps (grafo1.py keeps none)
RecordMerge(sc, history, node1, node2) ==
    IF sc = "grafo" THEN history \o <<node1, node2>> ELSE history

\* merge_nodes(node1, node2)
merge_nodes(sc, s, node1, node2) ==
    LET s1 == [s EXCEPT !.merged_nodes = RecordMerge(sc, @, node1, node2)]
    IN  IF ~HasNode(s1.G, node1) \/ ~HasNode(s1.G, node2)
        THEN {Raise(s1, "NetworkXError")}
        ELSE {MergePos([s1 EXCEPT !.G = MergeGraph(s1.G, node1, node2, edges)], node1, node2) :
                  edges \in MergeEdges(s1.G, node1, node2)}

\* a variant of fuse_max_edge_to_merged that merges and keeps the old anchor
fuse_keeping_anchor(sc, s) ==
    IF s.merged_node \notin PosKeys(s.pos) THEN {Ok(s)}
    ELSE IF ~HasNode(s.G, s.merged_node) THEN {Raise(s, "NetworkXError")}
    ELSE LET max_edge_node == find_max_edge_node(sc, s.G, s.merged_node)
         IN  IF max_edge_node = None THEN {Ok(s)}
             ELSE merge_nodes(sc, s, s.merged_node, max_edge_node)

\* fuse_max_edge_to_merged()
fuse_max_edge_to_merged(sc, s) ==
    IF s.merged_node \notin PosKeys(s.pos) THEN {Ok(s)}
    ELSE IF ~HasNode(s.G, s.merged_node) THEN {Raise(s, "NetworkXError")}
    ELSE LET max_edge_node == find_max_edge_node(sc, s.G, s.merged_node)
         IN  IF max_edge_node = None THEN {Ok(s)}
             ELSE {IF o.exc # "none" THEN o
                   ELSE Ok([o.self EXCEPT !.merged_node = Join(s.merged_node, max_edge_node)]) :
                       o \in merge_nodes(sc, s, s.merged_node, max_edge_node)}

RECURSIVE Replay(_, _, _)
\* the loop of reset_graph over self.shrinked_nodes, from the i-th checkpoint
Replay(sc, s, i) ==
    IF i > Len(s.shrinked_nodes) THEN {Ok(s)}
    ELSE UNION {IF o.exc # "none" THEN {o} ELSE Replay(sc, o.self, i + 1) :
                    o \in merge_nodes(sc, s, s.shrinked_nodes[i][1], s.shrinked_nodes[i][2])}

\* a variant of RestoredGraph that restores the nodes without their edges
RestoredGraphWithoutEdges(orig) == AddNodesFrom(EmptyGraph, orig.node)

\* G.clear(), add_nodes_from and add_edges_from of reset_graph
RestoredGraph(orig) == AddEdgesFrom(AddNodesFrom(EmptyGraph, orig.node), Edges(orig))

\* reset_graph() of grafo.py
reset_graph(s) ==
    LET s1 == [s EXCEPT !.G = RestoredGraph(original_G),
                        !.pos = original_pos,
                        !.merged_node = Str(0),
                        !.merged_nodes = <<>>]
    IN  {IF o.exc # "none" THEN o
         ELSE LET s2 == [o.self EXCEPT !.initial_nodes = o.self.G.node]
              IN  IF DrawGraphRaises(s2.G, s2.pos) THEN Raise(s2, "NetworkXError") ELSE Ok(s2) :
             o \in Replay("grafo", s1, 1)}

\* reset_graph() of grafo1.py
reset_graph1(s) ==
    LET s1 == [s EXCEPT !.G = RestoredGraph(original_G),
                        !.pos = original_pos,
                        !.merged_node = Str(0)]
    IN  {IF DrawGraphRaises(s1.G, s1.pos) THEN Raise(s1, "NetworkXError") ELSE Ok(s1)}

\* a variant of shrink_last_merged that keeps the newest checkpoint only
shrink_keeping_newest(s) ==
    IF Len(s.last_merged_nodes) # 2 THEN Raise(s, "ValueError")
    ELSE Ok([s EXCEPT !.last_merged_nodes = <<>>,
                      !.shrinked_nodes = <<<<s.last_merged_nodes[1], s.last_merged_nodes[2]>>>>])

\* a variant of shrink_last_merged that records the first node twice
shrink_repeating_first(s) ==
    IF Len(s.last_merged_nodes) # 2 THEN Raise(s, "ValueError")
    ELSE Ok([s EXCEPT !.last_merged_nodes = <<>>,
                      !.shrinked_nodes = Append(@, <<s.last_merged_nodes[1],
                                                     s.last_merged_nodes[1]>>)])

\* shrink_last_merged()
shrink_last_merged(s) ==
    IF Len(s.last_merged_nodes) # 2 THEN Raise(s, "ValueError")
    ELSE Ok([s EXCEPT !.last_merged_nodes = <<>>,
                      !.shrinked_nodes = Append(@, <<s.last_merged_nodes[1],
                                                     s.last_merged_nodes[2]>>)])

\* a variant of Terminal that reads the last two entries of the history
TerminalOnLastTwo(s) ==
    IF Len(s.merged_nodes) < 2 THEN {Raise(s, "IndexError")}
    ELSE LET found == find_nodes(s.initial_nodes,
                                 s.merged_nodes[Len(s.merged_nodes) - 1],
                                 s.merged_nodes[Len(s.merged_nodes)])
             sh    == shrink_last_merged([s EXCEPT !.last_merged_nodes = found])
         IN  IF sh.exc # "none" THEN {sh} ELSE reset_graph(sh.self)

\* the body of "if len(self.G.nodes) == 1" in on_key_press of grafo.py
Terminal(s) ==
    IF Len(s.merged_nodes) < 3 THEN {Raise(s, "IndexError")}
    ELSE LET found == find_nodes(s.initial_nodes,
                                 s.merged_nodes[Len(s.merged_nodes) - 2],
                                 s.merged_nodes[Len(s.merged_nodes)])
             sh    == shrink_last_merged([s EXCEPT !.last_merged_nodes = found])
         IN  IF sh.exc # "none" THEN {sh} ELSE reset_graph(sh.self)

\* on_key_press with event.key == 'enter'
on_key_enter(sc, s) ==
    UNION {IF o.exc # "none" THEN {o}
           ELSE IF sc = "grafo" /\ Len(o.self.G.node) = 1 THEN Terminal(o.self)
           ELSE {o} :
               o \in fuse_max_edge_to_merged(sc, s)}

RECURSIVE FirstHit(_, _, _, _)
\* the first key of pos, from the k-th, other than skip and within the radius of ev
FirstHit(p, k, skip, ev) ==
    IF k > Len(p) THEN None
    ELSE IF p[k].node # skip /\ Hit(p[k].xy, ev) THEN p[k].node
    ELSE FirstHit(p, k + 1, skip, ev)

\* on_press(event), event inside the axes at ev
on_press(s, ev) ==
    LET node == FirstHit(s.pos, 1, None, ev)
    IN  IF node = None THEN Ok(s) ELSE Ok([s EXCEPT !.selected_node = node])

\* on_release(event), event inside the axes at ev
on_release(sc, s, ev) ==
    IF s.selected_node = None THEN {Ok(s)}
    ELSE LET node == FirstHit(s.pos, 1, s.selected_node, ev)
         IN  IF node = None THEN {Ok([s EXCEPT !.selected_node = None])}
             ELSE {IF o.exc # "none" THEN o
                   ELSE Ok([o.self EXCEPT
                              !.last_merged_nodes =
                                  IF sc = "grafo" THEN <<s.selected_node, node>> ELSE @,
                              !.selected_node = None]) :
                       o \in merge_nodes(sc, s, s.selected_node, node)}

\* on_release(event) with the pointer outside the axes: event.xdata is None,
\* and the hit test of the first key other than the selected one raises
on_release_outside(s) ==
    IF s.selected_node = None THEN Ok(s)
    ELSE IF \E k \in 1..Len(s.pos) : s.pos[k].node # s.selected_node
    THEN Raise(s, "TypeError")
    ELSE Ok([s EXCEPT !.selected_node = None])

\* on_motion(event), event inside the axes at ev
on_motion(s, ev) ==
    IF s.selected_node = None THEN Ok(s)
    ELSE LET s1 == [s EXCEPT !.pos = PosSet(@, s.selected_node, ev)]
         IN  IF DrawGraphRaises(s1.G, s1.pos) THEN Raise(s1, "NetworkXError") ELSE Ok(s1)

(***************************************************************************)
(* Start-up: read_graph_from_file, plot_graph and __init__.                *)
(***************************************************************************)
\* the entries the matrices of the exhaustive families are filled with: no
\* edge, a weight, and the weights half a tolerance and one tolerance above it
FileWeights == {0, 10, 11, 12}

UpperPairs(n) == {ij \in (0..(n - 1)) \X (0..(n - 1)) : ij[1] < ij[2]}

\* the symmetric n x n matrix with the given entries above the diagonal
Symmetric(n, up) ==
    [i \in 1..n |-> [j \in 1..n |->
        IF i < j THEN up[<<i - 1, j - 1>>]
        ELSE IF j < i THEN up[<<j - 1, i - 1>>]
        ELSE 0]]

\* the example of the specification, weights 1.0, 5.0 and 2.0
ExampleFile ==
    [n |-> 3, matrix |-> <<<<0, 2000000, 10000000>>,
                           <<2000000, 0, 4000000>>,
                           <<10000000, 4000000, 0>>>>]

\* the adjacency-matrix files of the runs with pointer and keyboard, as
\* read_graph_from_file returns them: one node, two nodes, and three nodes
\* as the example, as a star at node 0 with weights within the tolerance, as
\* a path from node 0, and with node 0 isolated
InputFiles ==
    {[n |-> 1, matrix |-> <<<<0>>>>],
     [n |-> 2, matrix |-> <<<<0, 10>>, <<10, 0>>>>],
     ExampleFile,
     [n |-> 3, matrix |-> <<<<0, 10, 11>>, <<10, 0, 0>>, <<11, 0, 0>>>>],
     [n |-> 3, matrix |-> <<<<0, 10, 0>>, <<10, 0, 12>>, <<0, 12, 0>>>>],
     [n |-> 3, matrix |-> <<<<0, 0, 0>>, <<0, 0, 10>>, <<0, 10, 0>>>>]}

\* the four-node matrices of the keyboard-only runs: every choice of the
\* entries of node 0, the anchor, with every choice of 0 and 10 elsewhere
FourNodeUppers ==
    {a @@ b : a \in [{ij \in UpperPairs(4) : ij[1] = 0} -> FileWeights],
              b \in [{ij \in UpperPairs(4) : ij[1] # 0} -> {0, 10}]}

\* the complete four-node matrices with pairwise distinct weights: every way
\* to place six weights that are tolerances apart
DistinctUppers ==
    {up \in [UpperPairs(4) -> {20, 30, 40, 50, 60, 70}] :
        \A p, q \in UpperPairs(4) : p # q => up[p] # up[q]}

\* the files of the keyboard-only runs: those above, every three-node matrix
\* over FileWeights, and the four-node matrices
KeyFiles ==
    InputFiles
    \cup {[n |-> 3, matrix |-> Symmetric(3, up)] : up \in [UpperPairs(3) -> FileWeights]}
    \cup {[n |-> 4, matrix |-> Symmetric(4, up)] : up \in FourNodeUppers \cup DistinctUppers}

RECURSIVE MatrixEdges(_, _, _)
\* the edges plot_graph adds, in the order of its two loops, from (i, j) on
MatrixEdges(f, i, j) ==
    IF i >= f.n THEN <<>>
    ELSE IF j >= f.n THEN MatrixEdges(f, i + 1, i + 2)
    ELSE (IF f.matrix[i + 1][j + 1] # 0
          THEN <<<<Str(i), Str(j), f.matrix[i + 1][j + 1]>>>>
          ELSE <<>>) \o MatrixEdges(f, i, j + 1)

\* the graph plot_graph builds
plot_graph(f) ==
    AddEdgesFrom(AddNodesFrom(EmptyGraph, List([i \in 1..f.n |-> Str(i - 1)])), MatrixEdges(f, 0, 1))

\* nx.kamada_kawai_layout(G): a layout whose points are far apart against the
\* node radius, on coordinates that n - 1 nested midpoints keep whole
Layout(g) ==
    LET n == Len(g.node)
    IN  List([k \in 1..n |-> [node |-> g.node[k],
                              xy   |-> <<(k - 1) * 2 ^ (n - 1), ((k - 1) % 2) * 2 ^ (n - 1)>>]])

\* __init__, after plot_graph has built G and pos from one of the files
Start(files) ==
    /\ script \in {"grafo", "grafo1"}
    /\ \E f \in files : \E g \in {plot_graph(f)} :
          /\ G = g
          /\ pos = Layout(g)
          /\ original_G = CopyGraph(g)
          /\ original_pos = Layout(g)
          /\ initial_nodes = IF script = "grafo" THEN g.node ELSE <<>>
    /\ selected_node = None
    /\ merged_node = Str(0)
    /\ last_merged_nodes = <<>>
    /\ merged_nodes = <<>>
    /\ shrinked_nodes = <<>>
    /\ pc = "idle"
    /\ raised = "none"
    /\ used = [drag |-> 0, move |-> 0]

Init == Start(InputFiles)

InitKeys == Start(KeyFiles)

(***************************************************************************)
(* The events.  The GUI loop runs one handler at a time and prints the     *)
(* traceback of a handler that raises, then goes on with the next event.   *)
(***************************************************************************)
Self ==
    [G |-> G, pos |-> pos, selected_node |-> selected_node, merged_node |-> merged_node,
     last_merged_nodes |-> last_merged_nodes, merged_nodes |-> merged_nodes,
     shrinked_nodes |-> shrinked_nodes, initial_nodes |-> initial_nodes]

Commit(o) ==
    /\ G' = o.self.G
    /\ pos' = o.self.pos
    /\ selected_node' = o.self.selected_node
    /\ merged_node' = o.self.merged_node
    /\ last_merged_nodes' = o.self.last_merged_nodes
    /\ merged_nodes' = o.self.merged_nodes
    /\ shrinked_nodes' = o.self.shrinked_nodes
    /\ initial_nodes' = o.self.initial_nodes
    /\ raised' = o.exc
    /\ UNCHANGED <<script, original_G, original_pos>>

\* where the pointer is when an event arrives: on a node, or on a point of the layout
EventPoints == {pos[k].xy : k \in 1..Len(pos)} \cup {original_pos[k].xy : k \in 1..Len(original_pos)}

\* button_press_event inside the axes
Press ==
    /\ pc = "idle"
    /\ \E ev \in EventPoints : Commit(on_press(Self, ev))
    /\ UNCHANGED <<pc, used>>

\* motion_notify_event inside the axes: the pointer has come over another node
Motion ==
    /\ pc = "idle"
    /\ selected_node # None
    /\ used.move < MaxMoves
    /\ \E k \in 1..Len(pos) :
          /\ pos[k].node # selected_node
          /\ selected_node \in PosKeys(pos) => PosGet(pos, selected_node) # pos[k].xy
          /\ Commit(on_motion(Self, pos[k].xy))
    /\ used' = [used EXCEPT !.move = @ + 1]
    /\ UNCHANGED pc

\* button_release_event inside the axes
Release ==
    /\ pc = "idle"
    /\ selected_node # None
    /\ \E ev \in EventPoints :
          LET calls == FirstHit(pos, 1, selected_node, ev) # None
          IN  /\ calls => used.drag < MaxDrags
              /\ \E o \in on_release(script, Self, ev) : Commit(o)
              /\ used' = [used EXCEPT !.drag = IF calls THEN @ + 1 ELSE @]
    /\ UNCHANGED pc

\* button_release_event outside the axes
ReleaseOutside ==
    /\ pc = "idle"
    /\ selected_node # None
    /\ Commit(on_release_outside(Self))
    /\ UNCHANGED <<pc, used>>

\* key_press_event 'enter'
KeyEnter ==
    /\ pc = "idle"
    /\ \E o \in on_key_enter(script, Self) : Commit(o)
    /\ UNCHANGED <<pc, used>>

\* key_press_event 'escape' (grafo1.py only)
KeyEscape ==
    /\ pc = "idle"
    /\ script = "grafo1"
    /\ \E o \in reset_graph1(Self) : Commit(o)
    /\ UNCHANGED <<pc, used>>

\* key_press_event 'backspace' (grafo.py only): enters the while loop
KeyBackspace ==
    /\ pc = "idle"
    /\ script = "grafo"
    /\ pc' = "collapse"
    /\ raised' = "none"
    /\ UNCHANGED <<script, G, pos, selected_node, original_G, original_pos, merged_node,
                   last_merged_nodes, merged_nodes, shrinked_nodes, initial_nodes, used>>

\* one test of "while len(self.G.nodes) > 2" and, when it holds, one pass of the
\* body; no other handler runs before the loop is left.  The loop is stepped
\* because it need not end.
CollapseStep ==
    /\ pc = "collapse"
    /\ IF Len(G.node) > 2
       THEN \E o \in fuse_max_edge_to_merged(script, Self) :
                /\ Commit(o)
                /\ pc' = IF o.exc = "none" THEN "collapse" ELSE "idle"
       ELSE /\ pc' = "idle"
            /\ UNCHANGED <<script, G, pos, selected_node, original_G, original_pos,
                           merged_node, last_merged_nodes, merged_nodes, shrinked_nodes,
                           initial_nodes, raised>>
    /\ UNCHANGED used

Next ==
    \/ Press
    \/ Motion
    \/ Release
    \/ ReleaseOutside
    \/ KeyEnter
    \/ KeyEscape
    \/ KeyBackspace
    \/ CollapseStep

Spec == Init /\ [][Next]_vars

\* the runs in which the user only presses keys
NextKeys ==
    \/ KeyEnter
    \/ KeyEscape
    \/ KeyBackspace
    \/ CollapseStep

SpecKeys == InitKeys /\ [][NextKeys]_vars

(***************************************************************************)
(* Properties.                                                             *)
(***************************************************************************)
Nodes(g) == Range(g.node)

\* the leaves a label stands for
Tokens(label) == Range(Split(label))

\* the calls merge_nodes(a, b) a release or a greedy step can make on the live
\* graph: two distinct nodes of it
MergeCalls == {ab \in Nodes(G) \X Nodes(G) : ab[1] # ab[2]}

\* C1: weight conservation.  In every reachable state and for every two
\* distinct nodes a, b of the live graph, after merge_nodes(a, b) has made the
\* node new = "a,b", every other node k has weight(new, k) = weight(a, k) +
\* weight(b, k), a missing edge counting 0, seen from either end, and new has
\* an edge to k exactly when a or b had one.
C1_WeightConservation ==
    \A ab \in MergeCalls : \A o \in merge_nodes(script, Self, ab[1], ab[2]) :
        LET a == ab[1]
            b == ab[2]
            new == Join(a, b)
            H == o.self.G
        IN  /\ HasNode(H, new)
            /\ \A k \in Nodes(G) \ {a, b} :
                  /\ GetEdgeWeight(H, new, k) = GetEdgeWeight(G, a, k) + GetEdgeWeight(G, b, k)
                  /\ GetEdgeWeight(H, k, new) = GetEdgeWeight(G, a, k) + GetEdgeWeight(G, b, k)
                  /\ HasEdge(H, new, k) <=> (HasEdge(G, a, k) \/ HasEdge(G, k, b))
                  /\ HasEdge(H, k, new) <=> HasEdge(H, new, k)

\* a greedy step has merged node 0 with a node x of a loaded graph in which
\* both had an edge to a third node k, and the merged node's edge to k carries
\* the sum of the two weights
C1_Witness ==
    /\ shrinked_nodes = <<>>
    /\ \E x, k \in Nodes(original_G) :
          /\ x # k
          /\ HasNode(G, Join(Str(0), x))
          /\ HasNode(G, k)
          /\ HasEdge(original_G, Str(0), k)
          /\ HasEdge(original_G, x, k)
          /\ Weight(G, Join(Str(0), x), k)
                 = Weight(original_G, Str(0), k) + Weight(original_G, x, k)

\* C10: node count.  In every reachable state, merge_nodes(a, b) on two
\* distinct nodes of the live graph leaves exactly one node fewer; and in
\* grafo.py, whose history holds two entries per merge made since the graph
\* was last restored, n merges on the N loaded nodes leave N - n nodes.
C10_NodeCount ==
    /\ \A ab \in MergeCalls : \A o \in merge_nodes(script, Self, ab[1], ab[2]) :
          /\ Len(o.self.G.node) = Len(G.node) - 1
          /\ Cardinality(Nodes(o.self.G)) = Cardinality(Nodes(G)) - 1
    /\ script = "grafo" => Len(G.node) = Len(original_G.node) - Len(merged_nodes) \div 2

\* two merges have been made on a loaded graph of four nodes, and two nodes are left
C10_Witness ==
    /\ script = "grafo"
    /\ Len(original_G.node) = 4
    /\ Len(merged_nodes) = 4
    /\ Len(G.node) = 2

RECURSIVE SumUpTo(_, _)
\* f[1] + ... + f[k]
SumUpTo(f, k) == IF k = 0 THEN 0 ELSE f[k] + SumUpTo(f, k - 1)

\* the total weight of the edges of orig between the leaves of two labels
BlockWeight(orig, X, Y) ==
    LET sx == Split(X)
        sy == Split(Y)
        n  == Len(sx) * Len(sy)
        f  == [k \in 1..n |-> GetEdgeWeight(orig, sx[((k - 1) \div Len(sy)) + 1],
                                                  sy[((k - 1) % Len(sy)) + 1])]
    IN  SumUpTo(f, n)

RECURSIVE Contracted(_, _, _)
\* the labels left when the first k of the pairs cps are merged, in order
Contracted(labels, cps, k) ==
    IF k = 0 THEN labels
    ELSE (Contracted(labels, cps, k - 1) \ {cps[k][1], cps[k][2]})
             \cup {Join(cps[k][1], cps[k][2])}

\* g is the graph orig with the pairs cps merged in order: the nodes are the
\* merged labels, each once, and between two of them there is an edge exactly
\* when orig has one between their leaves, of the total weight of those
IsContraction(g, orig, cps) ==
    /\ Nodes(g) = Contracted(Nodes(orig), cps, Len(cps))
    /\ Len(g.node) = Cardinality(Nodes(g))
    /\ DOMAIN g.adj = Nodes(g)
    /\ \A X, Y \in Nodes(g) :
          IF X = Y THEN ~HasEdge(g, X, X)
          ELSE /\ HasEdge(g, X, Y) <=> \E i \in Tokens(X), j \in Tokens(Y) : HasEdge(orig, i, j)
               /\ GetEdgeWeight(g, X, Y) = BlockWeight(orig, X, Y)

\* the entries of a list of pairs, in order
Flatten(cps) == List([k \in 1..(2 * Len(cps)) |-> cps[(k + 1) \div 2][IF k % 2 = 1 THEN 1 ELSE 2]])

\* C2: reset fidelity.  Whenever reset_graph runs, after whatever drag-merges
\* and greedy steps, the live graph it leaves has the nodes, edges and weights
\* of the original snapshot with exactly the recorded shrink checkpoints merged
\* in recorded order, and of the original snapshot itself when none is
\* recorded: so in every state of grafo.py in which no merge was made since the
\* reset of the last full collapse (the history holds the replayed checkpoints
\* and nothing else), and for a reset run from any reachable state.
C2_ResetFidelity ==
    /\ script = "grafo" =>
          /\ merged_nodes = Flatten(shrinked_nodes)
                 => IsContraction(G, original_G, shrinked_nodes)
          /\ \A o \in reset_graph(Self) :
                 /\ o.exc = "none"
                 /\ IsContraction(o.self.G, original_G, shrinked_nodes)
    /\ script = "grafo1" =>
          \A o \in reset_graph1(Self) :
              /\ o.exc = "none"
              /\ IsContraction(o.self.G, original_G, <<>>)

\* a drag-merge and greedy steps were made, the full collapse recorded a
\* checkpoint and reset the graph, and no merge was made since
C2_Witness ==
    /\ script = "grafo"
    /\ used.drag = 1
    /\ Len(shrinked_nodes) = 1
    /\ merged_nodes = Flatten(shrinked_nodes)
    /\ raised = "none"
    /\ Len(G.node) = Len(original_G.node) - 1

\* C3: the Terminal state.  In every reachable state of grafo.py, when the
\* greedy step of an Enter leaves the live graph with exactly one node, the
\* handler completes the sequence: no exception ends it, one checkpoint is
\* recorded, and the reset leaves a graph of more than one node.
C3_TerminalCompletes ==
    (script = "grafo" /\ pc = "idle") =>
        \A f \in fuse_max_edge_to_merged(script, Self) :
            (f.exc = "none" /\ Len(f.self.G.node) = 1) =>
                \A t \in Terminal(f.self) :
                    /\ t.exc = "none"
                    /\ Len(t.self.shrinked_nodes) = Len(shrinked_nodes) + 1
                    /\ Len(t.self.G.node) > 1

\* an Enter on a baseline that an earlier checkpoint had reduced left one
\* node, and its handler ended in shrink_last_merged with a ValueError
C3_Witness ==
    /\ script = "grafo"
    /\ Len(shrinked_nodes) >= 1
    /\ Len(G.node) = 1
    /\ raised = "ValueError"

\* the original graph is complete on four nodes with pairwise distinct weights
CompleteDistinct(orig) ==
    LET pairs == {xy \in Nodes(orig) \X Nodes(orig) : xy[1] # xy[2]}
    IN  /\ Len(orig.node) = 4
        /\ \A xy \in pairs : HasEdge(orig, xy[1], xy[2])
        /\ \A xy, uv \in pairs :
              {xy[1], xy[2]} # {uv[1], uv[2]} => Weight(orig, xy[1], xy[2]) # Weight(orig, uv[1], uv[2])

\* the node the anchor absorbs in the final step, when two nodes are left
LastAbsorbed == CHOOSE c \in Nodes(G) : c # merged_node

\* the greedy collapse of a complete four-node graph with distinct weights,
\* before its first checkpoint: each Enter before the last merges without
\* recording a checkpoint, and the last Enter, on the two nodes left, records
\* exactly one checkpoint, the two given nodes in the order of the initial
\* labels, and resets to the original graph with that pair merged
CollapseRecords(first, second) ==
    (/\ script = "grafo"
     /\ pc = "idle"
     /\ CompleteDistinct(original_G)
     /\ shrinked_nodes = <<>>) =>
        \A o \in on_key_enter(script, Self) :
            /\ o.exc = "none"
            /\ IF Len(G.node) > 2
               THEN /\ o.self.shrinked_nodes = <<>>
                    /\ Len(o.self.G.node) = Len(G.node) - 1
               ELSE /\ Len(o.self.shrinked_nodes) = 1
                    /\ o.self.shrinked_nodes[1]
                           = SelectSeq(initial_nodes, LAMBDA n : n \in {first, second})
                    /\ IsContraction(o.self.G, original_G, o.self.shrinked_nodes)

\* C4, as stated: the checkpoint of the collapse is the pair merged by the
\* final step, the anchor composite and the node it absorbed last.
C4_AsStated == CollapseRecords(merged_node, LastAbsorbed)

\* C4, amended: the checkpoint of the collapse is the pair of nodes absorbed by
\* the last two greedy steps (the third-from-last and the last entry of the
\* history), in the order of the initial labels; exactly one checkpoint is
\* recorded, by the final step, and the reset leaves the original graph with
\* that pair merged into one node.
C4_CollapseCheckpoint ==
    CollapseRecords(IF merged_nodes = <<>> THEN None ELSE merged_nodes[Len(merged_nodes)],
                    LastAbsorbed)

\* the collapse of a complete four-node graph with distinct weights has
\* recorded its checkpoint and reset the graph to three nodes
C4_Witness ==
    /\ script = "grafo"
    /\ CompleteDistinct(original_G)
    /\ Len(shrinked_nodes) = 1
    /\ merged_nodes = Flatten(shrinked_nodes)
    /\ Len(G.node) = 3
    /\ raised = "none"

Abs(x) == IF x >= 0 THEN x ELSE 0 - x

\* the smallest leaf index in a label
MinLeaf(label) ==
    LET leaves == {IntOf(t) : t \in Tokens(label)}
    IN  CHOOSE m \in leaves : \A l \in leaves : m <= l

NeighborSet(g, t) == Range(Neighbors(g, t))

\* C5: the tie-break.  In every reachable graph of grafo.py and for every
\* target, whenever two neighbours' weights differ by less than the tolerance
\* and no other neighbour is heavier than they are, find_max_edge_node returns
\* the one of the two whose smallest leaf index is smaller.
C5_TieBreak ==
    script = "grafo" =>
        \A t \in Nodes(G) : \A x, y \in NeighborSet(G, t) :
            (/\ x # y
             /\ Abs(Weight(G, t, x) - Weight(G, t, y)) < EPS
             /\ \A z \in NeighborSet(G, t) :
                   Weight(G, t, z) <= Weight(G, t, x) \/ Weight(G, t, z) <= Weight(G, t, y)
             /\ MinLeaf(x) < MinLeaf(y))
                => find_max_edge_node(script, G, t) = x

\* the first greedy step on a loaded four-node graph has merged node 0 with
\* node 1, although nodes 2 and 3 were within the tolerance of each other,
\* node 3 was the heaviest, and node 1 was a tolerance or more lighter than it
C5_Witness ==
    /\ script = "grafo"
    /\ shrinked_nodes = <<>>
    /\ merged_nodes = <<Str(0), Str(1)>>
    /\ raised = "none"
    /\ \A x \in {Str(1), Str(2), Str(3)} : HasEdge(original_G, Str(0), x)
    /\ Abs(Weight(original_G, Str(0), Str(2)) - Weight(original_G, Str(0), Str(3))) < EPS
    /\ Weight(original_G, Str(0), Str(3)) >= Weight(original_G, Str(0), Str(2))
    /\ Weight(original_G, Str(0), Str(3)) - Weight(original_G, Str(0), Str(1)) >= EPS

\* C6: order independence.  In every reachable graph of grafo.py and for every
\* target, find_max_edge_node returns the same neighbour in whatever order the
\* neighbours are iterated.
C6_OrderIndependence ==
    script = "grafo" =>
        \A t \in Nodes(G) : \A p \in Orders(NeighborSet(G, t)) :
            FindMaxOver(script, G, t, p) = find_max_edge_node(script, G, t)

\* the anchor is a merged node, whose neighbours stand in the order in which
\* merge_nodes iterated a set, and the greedy step picks a different
\* neighbour for a different order
C6_Witness ==
    /\ script = "grafo"
    /\ merged_node # Str(0)
    /\ HasNode(G, merged_node)
    /\ \E p \in Orders(NeighborSet(G, merged_node)) :
          FindMaxOver(script, G, merged_node, p) # find_max_edge_node(script, G, merged_node)

\* C7: atomic failure of merge.  In every reachable state with a node
\* selected, the call merge_nodes(selected_node, b) that a release over a node
\* b makes, when one of the two is no node of the live graph, ends with an
\* error and leaves the graph, the position dict and the merge history as
\* they were.
C7_AtomicFailure ==
    selected_node # None =>
        \A b \in PosKeys(pos) \ {selected_node} :
            (~HasNode(G, selected_node) \/ ~HasNode(G, b)) =>
                \A o \in merge_nodes(script, Self, selected_node, b) :
                    /\ o.exc # "none"
                    /\ o.self.G = G
                    /\ o.self.pos = pos
                    /\ o.self.merged_nodes = merged_nodes

\* a release has called merge_nodes with a selected node that a greedy step
\* had merged away: the call raised, and its pair is the end of the history
C7_Witness ==
    /\ script = "grafo"
    /\ raised = "NetworkXError"
    /\ selected_node # None
    /\ ~HasNode(G, selected_node)
    /\ Len(merged_nodes) >= 4
    /\ merged_nodes[Len(merged_nodes) - 1] = selected_node
    /\ used.drag = 1

\* C8: the collapse command terminates.  In every reachable state inside the
\* backspace loop in which its condition holds (more than two live nodes), the
\* pass of the loop body leaves fewer nodes, so that the loop ends, and ends
\* with at most two nodes.
C8_CollapseTerminates ==
    (pc = "collapse" /\ Len(G.node) > 2) =>
        \A o \in fuse_max_edge_to_merged(script, Self) :
            /\ o.exc = "none"
            /\ Len(o.self.G.node) < Len(G.node)

\* the backspace loop is at its test with more than two nodes, and the pass
\* of its body changes nothing: the loop runs for ever
C8_Witness ==
    /\ pc = "collapse"
    /\ Len(G.node) > 2
    /\ \A o \in fuse_max_edge_to_merged(script, Self) : o = Ok(Self)

\* the labels find_nodes is applied to: the entries of the history, the live
\* nodes and the initial labels
Labels == Range(merged_nodes) \cup Nodes(G) \cup Range(initial_nodes)

\* C9, as stated: find_nodes(labelA, labelB) returns, in the order of the
\* initial labels, the initial labels n all of whose tokens are tokens of
\* labelA, or all of whose tokens are tokens of labelB.
C9_AsStated ==
    script = "grafo" =>
        \A A, B \in Labels :
            find_nodes(initial_nodes, A, B)
                = SelectSeq(initial_nodes,
                            LAMBDA n : Tokens(n) \subseteq Tokens(A) \/ Tokens(n) \subseteq Tokens(B))

\* C9, amended: find_nodes(labelA, labelB) returns, in the order of the
\* initial labels, the initial labels n among whose tokens are all the tokens
\* of labelA, or all the tokens of labelB, also when the initial labels hold
\* composite labels after a checkpointed reset.
C9_FindNodes ==
    script = "grafo" =>
        \A A, B \in Labels :
            find_nodes(initial_nodes, A, B)
                = SelectSeq(initial_nodes,
                            LAMBDA n : Tokens(A) \subseteq Tokens(n) \/ Tokens(B) \subseteq Tokens(n))

\* a full collapse has applied find_nodes to the third-from-last and the last
\* entry of the history, one of them a composite label, and got a list other
\* than the initial labels contained in either
C9_Witness ==
    /\ script = "grafo"
    /\ raised = "ValueError"
    /\ Len(merged_nodes) >= 4
    /\ LET A == merged_nodes[Len(merged_nodes) - 2]
           B == merged_nodes[Len(merged_nodes)]
       IN  /\ last_merged_nodes = find_nodes(initial_nodes, A, B)
           /\ Len(Split(A)) > 1 \/ Len(Split(B)) > 1
           /\ last_merged_nodes
                  # SelectSeq(initial_nodes,
                              LAMBDA n : Tokens(n) \subseteq Tokens(A) \/ Tokens(n) \subseteq Tokens(B))

\* C11: the greedy step.  In every reachable state in which the anchor is a
\* node of the live graph with at least one neighbour, fuse_max_edge_to_merged
\* returns without error, having called merge_nodes with the anchor first and
\* the neighbour chosen by find_max_edge_node second (the end of grafo.py's
\* history), the two are no nodes any more, and the anchor is the composite
\* "anchor,neighbour", a node of the live graph; on the example graph with
\* anchor "0" it leaves the nodes "1" and "0,2" with one edge, of weight 3.0.
C11_GreedyStep ==
    (HasNode(G, merged_node) /\ Neighbors(G, merged_node) # <<>>) =>
        LET chosen == find_max_edge_node(script, G, merged_node)
            new    == Join(merged_node, chosen)
        IN  /\ HasEdge(G, merged_node, chosen)
            /\ \A o \in fuse_max_edge_to_merged(script, Self) :
                  /\ o.exc = "none"
                  /\ o.self.merged_node = new
                  /\ HasNode(o.self.G, new)
                  /\ ~HasNode(o.self.G, merged_node)
                  /\ ~HasNode(o.self.G, chosen)
                  /\ Nodes(o.self.G) = (Nodes(G) \ {merged_node, chosen}) \cup {new}
                  /\ script = "grafo" => o.self.merged_nodes = merged_nodes \o <<merged_node, chosen>>
                  /\ (G = plot_graph(ExampleFile) /\ merged_node = Str(0)) =>
                        /\ o.self.G.node = <<Str(1), Join(Str(0), Str(2))>>
                        /\ Neighbors(o.self.G, new) = <<Str(1)>>
                        /\ Neighbors(o.self.G, Str(1)) = <<new>>
                        /\ Weight(o.self.G, new, Str(1)) = 6000000
                        /\ Weight(o.self.G, Str(1), new) = 6000000

\* the greedy step has run on the example graph with anchor "0": the anchor is
\* "0,2", a node with one edge, to "1", of weight 3.0
C11_Witness ==
    /\ original_G = plot_graph(ExampleFile)
    /\ merged_node = Join(Str(0), Str(2))
    /\ G.node = <<Str(1), Join(Str(0), Str(2))>>
    /\ Weight(G, merged_node, Str(1)) = 6000000
    /\ raised = "none"

\* C12: the greedy step on an isolated anchor.  In every reachable state in
\* which the anchor is a node of the live graph without neighbours,
\* find_max_edge_node returns None and fuse_max_edge_to_merged returns without
\* error, leaving the graph, the position dict, the anchor, the merge history,
\* the shrink checkpoints and every other field as they were.
C12_IsolatedAnchor ==
    (HasNode(G, merged_node) /\ Neighbors(G, merged_node) = <<>>) =>
        /\ find_max_edge_node(script, G, merged_node) = None
        /\ fuse_max_edge_to_merged(script, Self) = {Ok(Self)}

\* the backspace loop runs the greedy step on an anchor that has absorbed its
\* component and is isolated, with other nodes left in the graph
C12_Witness ==
    /\ pc = "collapse"
    /\ merged_node # Str(0)
    /\ HasNode(G, merged_node)
    /\ Neighbors(G, merged_node) = <<>>
    /\ Len(G.node) > 2
    /\ merged_nodes # <<>>

\* C13: the shrink checkpoints only grow.  Every step of a run leaves the list
\* of shrink checkpoints as it was or appends one pair to its end; and in
\* every reachable state reset_graph, with its replay, leaves the list as it
\* was and the history holding the replayed checkpoints only.
C13_CheckpointsGrow ==
    /\ [][\/ shrinked_nodes' = shrinked_nodes
          \/ /\ Len(shrinked_nodes') = Len(shrinked_nodes) + 1
             /\ SubSeq(shrinked_nodes', 1, Len(shrinked_nodes)) = shrinked_nodes
             /\ Len(shrinked_nodes'[Len(shrinked_nodes')]) = 2]_vars
    /\ [](script = "grafo" =>
             \A o \in reset_graph(Self) :
                 /\ o.self.shrinked_nodes = shrinked_nodes
                 /\ o.exc = "none" => o.self.merged_nodes = Flatten(shrinked_nodes))

\* a second full collapse has appended its checkpoint after the first, and
\* the reset has replayed both
C13_Witness ==
    /\ script = "grafo"
    /\ Len(shrinked_nodes) = 2
    /\ shrinked_nodes[1] # shrinked_nodes[2]
    /\ merged_nodes = Flatten(shrinked_nodes)
    /\ Len(G.node) = Len(original_G.node) - 2

\* C14: the identifier partition.  In every reachable state no identifier
\* occurs twice in the live graph, no leaf occurs twice in an identifier, the
\* token sets of the live identifiers are pairwise disjoint and their union is
\* the set of the original leaf labels; merge_nodes(a, b) replaces a and b by
\* the identifier "a,b", and in grafo.py every live composite identifier is
\* "a,b" for a pair (a, b) of the merge history.
C14_IdentifierPartition ==
    /\ Len(G.node) = Cardinality(Nodes(G))
    /\ \A n \in Nodes(G) : Len(Split(n)) = Cardinality(Tokens(n))
    /\ \A n, m \in Nodes(G) : n # m => Tokens(n) \cap Tokens(m) = {}
    /\ UNION {Tokens(n) : n \in Nodes(G)} = Nodes(original_G)
    /\ \A ab \in MergeCalls : \A o \in merge_nodes(script, Self, ab[1], ab[2]) :
          Nodes(o.self.G) = (Nodes(G) \ {ab[1], ab[2]}) \cup {Join(ab[1], ab[2])}
    /\ script = "grafo" =>
          \A n \in Nodes(G) :
              Len(Split(n)) > 1 =>
                  \E k \in 1..(Len(merged_nodes) - 1) :
                      k % 2 = 1 /\ n = Join(merged_nodes[k], merged_nodes[k + 1])

\* a drag-merge and a greedy step have made one identifier of three leaves,
\* the composite of the drag being the second part
C14_Witness ==
    /\ used.drag = 1
    /\ Len(original_G.node) = 3
    /\ \E a, b, c \in Nodes(original_G) :
          /\ G.node = <<Join(a, Join(b, c))>>
          /\ Cardinality({a, b, c}) = 3

RECURSIVE ReachedIn(_, _, _)
\* the nodes of g reached from the set S of its nodes in at most k edges
ReachedIn(g, S, k) ==
    IF k = 0 THEN S
    ELSE LET R == ReachedIn(g, S, k - 1)
         IN  R \cup UNION {NeighborSet(g, n) : n \in R}

\* g has a node, and every node is reached from the first
Connected(g) == g.node # <<>> /\ ReachedIn(g, {g.node[1]}, Len(g.node)) = Nodes(g)

\* C15: anchor validity.  In every reachable state the anchor is a node of the
\* live graph, and the greedy step on a connected live graph of more than one
\* node merges two nodes.
C15_AnchorValid ==
    /\ HasNode(G, merged_node)
    /\ (Connected(G) /\ Len(G.node) > 1) =>
          \A o \in fuse_max_edge_to_merged(script, Self) :
              o.exc = "none" /\ Len(o.self.G.node) = Len(G.node) - 1

\* a drag has merged the anchor into a composite node, the anchor is still the
\* old identifier, and the greedy step on the connected graph of two nodes
\* does nothing
C15_Witness ==
    /\ used.drag = 1
    /\ raised = "none"
    /\ ~HasNode(G, merged_node)
    /\ \E n \in Nodes(G) : merged_node \in Tokens(n) /\ n # merged_node
    /\ Len(G.node) = 2
    /\ Connected(G)
    /\ fuse_max_edge_to_merged(script, Self) = {Ok(Self)}

\* C16: positions and graph under interleaved events.  In every reachable
\* state the keys of the position dict are the nodes of the live graph, and
\* the selected node, when one is set, is a node of the live graph.
C16_PosConsistent ==
    /\ PosKeys(pos) = Nodes(G)
    /\ selected_node # None => HasNode(G, selected_node)

\* a greedy step has arrived between the press and the motion of a drag: the
\* selected node was merged away, and the motion has put a position for it
\* back into the dict
C16_Witness ==
    /\ used.move = 1
    /\ used.drag = 0
    /\ selected_node # None
    /\ ~HasNode(G, selected_node)
    /\ selected_node \in PosKeys(pos)
    /\ PosKeys(pos) = Nodes(G) \cup {selected_node}
    /\ merged_node # Str(0)

\* C17: the replay of the checkpoints.  In every reachable state of grafo.py
\* each shrink checkpoint, taken in recorded order on the original snapshot,
\* names two distinct identifiers that are both nodes once the checkpoints
\* before it are merged; so the replay of reset_graph raises nothing, none of
\* its merges fails, and the reset leaves as many nodes as the original has,
\* less the number of checkpoints.
C17_ReplayValid ==
    script = "grafo" =>
        /\ \A k \in 1..Len(shrinked_nodes) :
              LET live == Contracted(Nodes(original_G), shrinked_nodes, k - 1)
              IN  /\ Len(shrinked_nodes[k]) = 2
                  /\ shrinked_nodes[k][1] # shrinked_nodes[k][2]
                  /\ shrinked_nodes[k][1] \in live
                  /\ shrinked_nodes[k][2] \in live
        /\ \A o \in reset_graph(Self) :
              /\ o.exc = "none"
              /\ o.self.merged_nodes = Flatten(shrinked_nodes)
              /\ Len(o.self.G.node) = Len(original_G.node) - Len(shrinked_nodes)
              /\ PosKeys(o.self.pos) = Nodes(o.self.G)

\* two collapses have recorded a checkpoint each, the second naming the
\* composite node of the first, and the reset has replayed both in order
C17_Witness ==
    /\ script = "grafo"
    /\ Len(shrinked_nodes) = 2
    /\ Join(shrinked_nodes[1][1], shrinked_nodes[1][2]) \in Range(shrinked_nodes[2])
    /\ merged_nodes = Flatten(shrinked_nodes)
    /\ Len(original_G.node) = 4
    /\ Len(G.node) = 2
    /\ raised = "none"

\* C18: the selected weight is near the maximum.  In every reachable graph of
\* grafo.py, for every target with a neighbour and every order in which its
\* neighbours are iterated, the weight of the edge to the neighbour that
\* find_max_edge_node returns is less than the tolerance below the weight of
\* every edge of the target.
C18_NearMaximal ==
    script = "grafo" =>
        \A t \in Nodes(G) : \A p \in Orders(NeighborSet(G, t)) :
            p # <<>> =>
                LET chosen == FindMaxOver(script, G, t, p)
                IN  /\ chosen \in NeighborSet(G, t)
                    /\ \A z \in NeighborSet(G, t) : Weight(G, t, z) - Weight(G, t, chosen) < EPS

\* the first greedy step on a loaded graph has merged node 0 with a
\* neighbour whose edge was a tolerance or more lighter than another edge of
\* node 0
C18_Witness ==
    /\ script = "grafo"
    /\ shrinked_nodes = <<>>
    /\ raised = "none"
    /\ \E x, z \in Nodes(original_G) :
          /\ merged_nodes = <<Str(0), x>>
          /\ HasNode(G, Join(Str(0), x))
          /\ HasEdge(original_G, Str(0), z)
          /\ Weight(original_G, Str(0), z) - Weight(original_G, Str(0), x) >= EPS

\* C19: the frame of a merge.  In every reachable state merge_nodes(a, b) on
\* two distinct nodes of the live graph keeps every other node, in its order,
\* keeps between every two other nodes the edge they had, with its weight,
\* and makes none, keeps the position of every other node, and keeps the
\* anchor, the shrink checkpoints and the initial labels; and no step of a run
\* changes the original snapshot.
C19_MergeFrame ==
    /\ [](\A ab \in MergeCalls : \A o \in merge_nodes(script, Self, ab[1], ab[2]) :
             LET H      == o.self.G
                 others == Nodes(G) \ {ab[1], ab[2]}
             IN  /\ SelectSeq(H.node, LAMBDA n : n \in others)
                        = SelectSeq(G.node, LAMBDA n : n \in others)
                 /\ Nodes(H) \ others = {Join(ab[1], ab[2])}
                 /\ \A x, y \in others :
                       /\ HasEdge(H, x, y) <=> HasEdge(G, x, y)
                       /\ GetEdgeWeight(H, x, y) = GetEdgeWeight(G, x, y)
                 /\ \A x \in others :
                       /\ x \in PosKeys(o.self.pos)
                       /\ PosGet(o.self.pos, x) = PosGet(pos, x)
                 /\ o.self.merged_node = merged_node
                 /\ o.self.shrinked_nodes = shrinked_nodes
                 /\ o.self.initial_nodes = initial_nodes)
    /\ [][original_G' = original_G /\ original_pos' = original_pos]_vars

\* a greedy step has merged two nodes of a loaded four-node graph, and the
\* two other nodes have the edge, the weight and the positions they had
C19_Witness ==
    /\ Len(original_G.node) = 4
    /\ Len(G.node) = 3
    /\ shrinked_nodes = <<>>
    /\ \E x, y \in Nodes(G) \cap Nodes(original_G) :
          /\ x # y
          /\ HasEdge(original_G, x, y)
          /\ HasEdge(G, x, y)
          /\ Weight(G, x, y) = Weight(original_G, x, y)
          /\ PosGet(pos, x) = PosGet(original_pos, x)
          /\ PosGet(pos, y) = PosGet(original_pos, y)

\* C20: the two variants select the same neighbour.  In every reachable graph
\* and for every target, find_max_edge_node of grafo1.py and find_max_edge_node
\* of grafo.py return the same neighbour, the neighbours being iterated in the
\* order of the graph.
C20_VariantEquivalence ==
    \A t \in Nodes(G) :
        find_max_edge_node("grafo1", G, t) = find_max_edge_node("grafo", G, t)

\* the first greedy step of grafo1.py has merged node 0 with a neighbour
\* other than the one grafo.py selects on the same loaded graph
C20_Witness ==
    /\ script = "grafo1"
    /\ raised = "none"
    /\ Len(G.node) = Len(original_G.node) - 1
    /\ \E x \in Nodes(original_G) :
          /\ merged_node = Join(Str(0), x)
          /\ HasNode(G, merged_node)
          /\ find_max_edge_node("grafo1", original_G, Str(0)) = x
          /\ find_max_edge_node("grafo", original_G, Str(0)) # x

=============================================================================
